---- MODULE Spec2Model ----
(***************************************************************************)
(* The todo HTTP service of hello-world-api/src/main.rs as a state machine. *)
(*                                                                         *)
(* State: the rows of table "todo" (owned by the relational store), the    *)
(* position of every serving task (idle, waiting for a pooled connection,  *)
(* holding a connection with its statement in flight), and the last        *)
(* response the service has emitted together with what it logged for it.   *)
(***************************************************************************)
EXTENDS Naturals, Sequences, FiniteSets

\* ------------------------------------------------------------------ bounds
\* Result cap bound to $1 of the listing statement (main.rs:59).
Limit == 10
\* Connections in the pool. main.rs:26 sets 20; the model scales the pool
\* down together with the number of tasks so that the pool can be exhausted.
MaxConnections == 1
\* Concurrently served requests (one task per inbound request).
NumTasks == 2
\* Identifiers the store's uuid generator can hand out to new rows.
MaxFresh == 1

Tasks == 1..NumTasks
\* The identifier space, ordered as the store orders uuids.
Uuids == 1..(Limit + MaxFresh)
\* Identifiers a new row can get; they interleave with the rows already there.
FreshIds == {2 * k : k \in 1..MaxFresh}
\* Identifiers of the rows an earlier run of the service left in the table.
SeedIds == Uuids \ FreshIds
\* Path identifiers clients send.
ReqIds == FreshIds
\* Texts clients send.
Texts == {"buy milk", "walk dog"}

Handlers == {"get_todos", "get_todo", "put_todo_done", "create_todo"}

VARIABLES store, pc, handler, last
vars == <<store, pc, handler, last>>

\* ------------------------------------------------------------- the schema
\* Column default of todo.is_done (the migration is not part of src/).
DefaultIsDone == FALSE

\* ------------------------------------------------------------ store errors
NoErr == [variant |-> "None", code |-> "", message |-> ""]
RowNotFound == [variant |-> "RowNotFound", code |-> "", message |-> ""]
PoolTimedOut == [variant |-> "PoolTimedOut", code |-> "", message |-> ""]
IoErr == [variant |-> "Io", code |-> "", message |-> "connection reset by peer"]
DbUnique == [variant |-> "Database", code |-> "23505",
             message |-> "duplicate key value violates unique constraint todo_pkey"]
DbOther == [variant |-> "Database", code |-> "57014",
            message |-> "canceling statement due to statement timeout"]
\* Failures the store can answer a statement with, whatever the statement.
Failures == {IoErr, DbOther}

\* format!("{:?}", err): the variant and every diagnostic field of the error.
Debug(err) == err.variant \o "(" \o err.code \o ": " \o err.message \o ")"

\* ------------------------------------------------- Record Store Gateway
\* A row as the statements return it (struct Todo).
Todo(id, row) == [id |-> id, todo_text |-> row.todo_text, is_done |-> row.is_done]

Ok(rows, s) == [ok |-> TRUE, rows |-> rows, err |-> NoErr, store |-> s]
\* A failed statement has no effect on the table.
Err(e, s) == [ok |-> FALSE, rows |-> <<>>, err |-> e, store |-> s]

\* The identifier of S with i - 1 identifiers of S below it.
Nth(S, i) == CHOOSE x \in S : Cardinality({y \in S : y < x}) = i - 1

\* "limit $1": how many of the table's rows a cap of n lets through.
LimitRows(s, n) == IF Cardinality(DOMAIN s) <= n THEN Cardinality(DOMAIN s) ELSE n

\* The listing statement without its "limit $1".
SelectTodos_NoLimit(s, n) ==
    Ok([i \in 1..Cardinality(DOMAIN s) |-> Todo(Nth(DOMAIN s, i), s[Nth(DOMAIN s, i)])], s)

\* select id, todo_text, is_done from "todo" order by id limit $1   (fetch_all)
\* Row i of the result is the row with the i-th identifier in ascending order.
SelectTodos(s, n) ==
    Ok([i \in 1..LimitRows(s, n) |-> Todo(Nth(DOMAIN s, i), s[Nth(DOMAIN s, i)])], s)

\* select id, todo_text, is_done from "todo" where id = $1   (fetch_one)
SelectTodo(s, id) ==
    IF id \in DOMAIN s THEN Ok(<<Todo(id, s[id])>>, s) ELSE Err(RowNotFound, s)

\* The update flipping the flag instead of setting it to $1.
UpdateTodoDone_Toggle(s, done, id) ==
    IF id \in DOMAIN s
    THEN LET s2 == [s EXCEPT ![id].is_done = ~s[id].is_done]
         IN  Ok(<<Todo(id, s2[id])>>, s2)
    ELSE Err(RowNotFound, s)

\* The update without its "where id = $2".
UpdateTodoDone_AllRows(s, done, id) ==
    IF id \in DOMAIN s
    THEN LET s2 == [i \in DOMAIN s |-> [s[i] EXCEPT !.is_done = done]]
         IN  Ok(<<Todo(id, s2[id])>>, s2)
    ELSE Err(RowNotFound, s)

\* The update answering with the row as it was read before the write.
UpdateTodoDone_ReturnOld(s, done, id) ==
    IF id \in DOMAIN s
    THEN Ok(<<Todo(id, s[id])>>, [s EXCEPT ![id].is_done = done])
    ELSE Err(RowNotFound, s)

\* update "todo" set is_done = $1 where id = $2 returning ...   (fetch_one)
UpdateTodoDone(s, done, id) ==
    IF id \in DOMAIN s
    THEN LET s2 == [s EXCEPT ![id].is_done = done]
         IN  Ok(<<Todo(id, s2[id])>>, s2)
    ELSE Err(RowNotFound, s)

\* The insert binding an empty string instead of body.text.
InsertTodo_Blank(s, text, uuid) ==
    IF uuid \in DOMAIN s
    THEN Err(DbUnique, s)
    ELSE LET s2 == [i \in DOMAIN s \cup {uuid} |->
                      IF i = uuid
                      THEN [todo_text |-> "", is_done |-> DefaultIsDone]
                      ELSE s[i]]
         IN  Ok(<<Todo(uuid, s2[uuid])>>, s2)

\* insert into "todo" (todo_text) values ($1) returning ...   (fetch_one)
\* uuid is the value the column default generates for id; a value already in
\* the table violates the primary key.
InsertTodo(s, text, uuid) ==
    IF uuid \in DOMAIN s
    THEN Err(DbUnique, s)
    ELSE LET s2 == [i \in DOMAIN s \cup {uuid} |->
                      IF i = uuid
                      THEN [todo_text |-> text, is_done |-> DefaultIsDone]
                      ELSE s[i]]
         IN  Ok(<<Todo(uuid, s2[uuid])>>, s2)

\* ------------------------------------------------- Domain-to-View Mapper
ToDoView(todo) == [id |-> todo.id, text |-> todo.todo_text, is_done |-> todo.is_done]

\* ------------------------------------------------------- Error Translator
GenericMessage == "Fail to insert into database"

\* impl From<Box<dyn DatabaseError>> for ApiError
ApiErrorFromDatabase(value) ==
    IF value.code = "23505"
    THEN [code |-> 409, error |-> "Duplicate entity", logged |-> ""]
    ELSE [code |-> 500, error |-> Debug(value), logged |-> ""]

\* The translator without its RowNotFound arm.
ApiErrorFrom_NoNotFound(err) ==
    CASE err.variant = "Database" -> ApiErrorFromDatabase(err)
      [] OTHER ->
            [code |-> 500, error |-> GenericMessage,
             logged |-> GenericMessage \o " " \o Debug(err)]

\* impl From<sqlx::Error> for ApiError; logged is the line error!() writes.
ApiErrorFrom(err) ==
    CASE err.variant = "Database" -> ApiErrorFromDatabase(err)
      [] err.variant = "RowNotFound" ->
            [code |-> 404, error |-> "Not found", logged |-> ""]
      [] OTHER ->
            [code |-> 500, error |-> GenericMessage,
             logged |-> GenericMessage \o " " \o Debug(err)]

\* --------------------------------------------------------------- responses
NoReq == [id |-> 0, text |-> "", is_done |-> FALSE]
PathReq(id) == [id |-> id, text |-> "", is_done |-> FALSE]
PutReq(id, done) == [id |-> id, text |-> "", is_done |-> done]
CreateReq(text) == [id |-> 0, text |-> text, is_done |-> FALSE]

\* (StatusCode, Json(view)).into_response()
JsonResponse(op, req, code, views) ==
    [op |-> op, req |-> req, status |-> code, ctype |-> "application/json",
     json |-> views, text |-> "", cause |-> NoErr, logged |-> ""]

\* impl IntoResponse for ApiError: (self.code, self.error).into_response(),
\* a status with a plain string body.
IntoResponse(op, req, cause, e) ==
    [op |-> op, req |-> req, status |-> e.code, ctype |-> "text/plain; charset=utf-8",
     json |-> <<>>, text |-> e.error, cause |-> cause, logged |-> e.logged]

\* The extractor's rejection of a body or path that does not decode.
Rejection(op) ==
    [op |-> op, req |-> NoReq, status |-> 400, ctype |-> "text/plain; charset=utf-8",
     json |-> <<>>, text |-> "Failed to parse the request", cause |-> NoErr,
     logged |-> ""]

NoResponse ==
    [op |-> "none", req |-> NoReq, status |-> 0, ctype |-> "",
     json |-> <<>>, text |-> "", cause |-> NoErr, logged |-> ""]

\* match result { Ok(..) => (code, Json(view)), Err(err) => ApiError::from(err) }
Reply(op, req, code, result) ==
    IF result.ok
    THEN JsonResponse(op, req, code, [i \in 1..Len(result.rows) |-> ToDoView(result.rows[i])])
    ELSE IntoResponse(op, req, result.err, ApiErrorFrom(result.err))

\* ------------------------------------------------------------------ state
\* The table when the service starts serving: the rows earlier runs left
\* behind (the store outlives the process).
SeedRow == [todo_text |-> "seeded", is_done |-> FALSE]
SeededStore == [i \in SeedIds |-> SeedRow]

Init ==
    /\ store = SeededStore
    /\ pc = [t \in Tasks |-> "idle"]
    /\ handler = [t \in Tasks |-> "none"]
    /\ last = NoResponse

\* Connections checked out of the pool.
InUse == Cardinality({t \in Tasks : pc[t] = "query"})

\* The handlers whose extractors can reject a request (a path identifier, a
\* JSON body); get_todos extracts only the pool.
Decoding == {"get_todo", "put_todo_done", "create_todo"}

\* ---------------------------------------------------------------- actions
\* The dispatcher letting the statement of create_todo run, on an empty text,
\* although the body did not decode.
Receive_RunAnyway(t, op, decodes) ==
    /\ pc[t] = "idle"
    /\ \/ /\ decodes
          /\ pc' = [pc EXCEPT ![t] = "acquire"]
          /\ handler' = [handler EXCEPT ![t] = op]
          /\ UNCHANGED <<store, last>>
       \/ /\ ~decodes
          /\ op \in Decoding
          /\ last' = Rejection(op)
          /\ store' = IF op = "create_todo"
                      THEN InsertTodo(store, "", CHOOSE u \in FreshIds : TRUE).store
                      ELSE store
          /\ UNCHANGED <<pc, handler>>

\* Route Dispatcher and extractors: a request reaches task t. When its path
\* or body does not decode the extractor answers and the handler never runs;
\* otherwise the handler starts and asks the pool for a connection.
Receive(t, op, decodes) ==
    /\ pc[t] = "idle"
    /\ \/ /\ decodes
          /\ pc' = [pc EXCEPT ![t] = "acquire"]
          /\ handler' = [handler EXCEPT ![t] = op]
          /\ UNCHANGED <<store, last>>
       \/ /\ ~decodes
          /\ op \in Decoding
          /\ last' = Rejection(op)
          /\ UNCHANGED <<store, pc, handler>>

\* The pool hands task t a connection.
Acquire(t) ==
    /\ pc[t] = "acquire"
    /\ InUse < MaxConnections
    /\ pc' = [pc EXCEPT ![t] = "query"]
    /\ UNCHANGED <<store, handler, last>>

\* The pool without acquire_timeout: the task keeps waiting.
AcquireTimeout_Never(t) ==
    /\ pc[t] = "acquire"
    /\ FALSE
    /\ UNCHANGED vars

\* acquire_timeout: no connection came free in time, the statement fails
\* with PoolTimedOut without reaching the store.
AcquireTimeout(t) ==
    /\ pc[t] = "acquire"
    /\ InUse >= MaxConnections
    /\ last' = Reply(handler[t], NoReq, 0, Err(PoolTimedOut, store))
    /\ pc' = [pc EXCEPT ![t] = "idle"]
    /\ handler' = [handler EXCEPT ![t] = "none"]
    /\ UNCHANGED store

\* The statement of task t has come back as result: the handler answers and
\* its connection returns to the pool.
Finish(t, response, result) ==
    /\ last' = response
    /\ store' = result.store
    /\ pc' = [pc EXCEPT ![t] = "idle"]
    /\ handler' = [handler EXCEPT ![t] = "none"]

\* What the store answers: the statement's result, or a failure.
Answer(result, fail) == IF fail = NoErr THEN result ELSE Err(fail, store)

get_todos(t, fail) ==
    /\ pc[t] = "query" /\ handler[t] = "get_todos"
    /\ LET result == Answer(SelectTodos(store, Limit), fail)
       IN  Finish(t, Reply("get_todos", NoReq, 200, result), result)

get_todo(t, id, fail) ==
    /\ pc[t] = "query" /\ handler[t] = "get_todo"
    /\ LET result == Answer(SelectTodo(store, id), fail)
       IN  Finish(t, Reply("get_todo", PathReq(id), 200, result), result)

put_todo_done(t, id, is_done, fail) ==
    /\ pc[t] = "query" /\ handler[t] = "put_todo_done"
    /\ LET result == Answer(UpdateTodoDone(store, is_done, id), fail)
       IN  Finish(t, Reply("put_todo_done", PutReq(id, is_done), 200, result), result)

create_todo(t, text, uuid, fail) ==
    /\ pc[t] = "query" /\ handler[t] = "create_todo"
    /\ LET result == Answer(InsertTodo(store, text, uuid), fail)
       IN  Finish(t, Reply("create_todo", CreateReq(text), 201, result), result)

Outcomes == {NoErr} \cup Failures

\* The statement of task t completes.
Query(t) ==
    \/ \E fail \in Outcomes : get_todos(t, fail)
    \/ \E id \in ReqIds, fail \in Outcomes : get_todo(t, id, fail)
    \/ \E id \in ReqIds, d \in BOOLEAN, fail \in Outcomes : put_todo_done(t, id, d, fail)
    \/ \E text \in Texts, uuid \in FreshIds, fail \in Outcomes :
          create_todo(t, text, uuid, fail)

Next ==
    \/ \E t \in Tasks, op \in Handlers, decodes \in BOOLEAN : Receive(t, op, decodes)
    \/ \E t \in Tasks : Acquire(t)
    \/ \E t \in Tasks : AcquireTimeout(t)
    \/ \E t \in Tasks : Query(t)

Spec == Init /\ [][Next]_vars

\* Every acquire returns within the timeout (with a connection or with
\* PoolTimedOut) and every statement the store was sent comes back.
Fairness ==
    \A t \in Tasks : /\ WF_vars(Acquire(t) \/ AcquireTimeout(t))
                     /\ WF_vars(Query(t))

FairSpec == Spec /\ Fairness

\* ------------------------------------------------------------ properties
\* The step in which the statement of a handler op comes back to its task.
Completes(op) ==
    \E t \in Tasks : pc[t] = "query" /\ handler[t] = op /\ pc'[t] = "idle"

\* The store executed the statement behind the response (it did not fail).
Executed(r) == r.cause \notin Failures

Rows == DOMAIN store

\* C1: when POST /todos with text T has answered 201 with identifier I and the
\* next statement to complete is GET /todos/I, executed by the store, the
\* answer is 200 with id = I, text = T and is_done = false.
C1_CreateThenGet ==
    [][(/\ last.op = "create_todo" /\ last.status = 201
        /\ Completes("get_todo")
        /\ last'.req.id = last.json[1].id
        /\ Executed(last'))
       => /\ last'.status = 200
          /\ last'.json = <<[id |-> last.json[1].id, text |-> last.req.text,
                             is_done |-> FALSE]>>]_vars

C1_Witness ==
    /\ last.op = "get_todo" /\ last.status = 200
    /\ last.req.id \in FreshIds
    /\ last.json[1].text \in Texts /\ last.json[1].is_done = FALSE

\* C2: a PUT /todos/I the store executes answers 200 and stores the sent
\* is_done when I is a stored todo, and answers 404 leaving the store as it
\* was when I is not; the GET /todos/I that follows a 200 PUT of is_done =
\* true answers 200 with is_done = true.
C2_PutThenGet ==
    [][/\ (Completes("put_todo_done") /\ Executed(last'))
          => IF last'.req.id \in Rows
             THEN /\ last'.status = 200
                  /\ store'[last'.req.id].is_done = last'.req.is_done
             ELSE last'.status = 404 /\ store' = store
       /\ (/\ last.op = "put_todo_done" /\ last.status = 200 /\ last.req.is_done
           /\ Completes("get_todo")
           /\ last'.req.id = last.req.id
           /\ Executed(last'))
          => /\ last'.status = 200
             /\ last'.json[1].is_done = TRUE]_vars

C2_Witness ==
    /\ last.op = "get_todo" /\ last.status = 200
    /\ last.json[1].is_done = TRUE

\* C3: a 200 answer of GET /todos holds at most 10 entries, ascending by
\* identifier, each of them a todo of the store as it is at the call.
C3_ListBounded ==
    (last.op = "get_todos" /\ last.status = 200)
    => /\ Len(last.json) <= 10
       /\ \A i \in 1..Len(last.json) : \A j \in 1..Len(last.json) :
             i < j => last.json[i].id < last.json[j].id
       /\ \A i \in 1..Len(last.json) :
             /\ last.json[i].id \in Rows
             /\ last.json[i] = ToDoView(Todo(last.json[i].id, store[last.json[i].id]))

C3_Witness ==
    /\ last.op = "get_todos" /\ last.status = 200
    /\ Len(last.json) = 10
    /\ Cardinality(Rows) > 10
    /\ \E i \in 1..Len(last.json) : last.json[i].id \in FreshIds

\* C4: a step in which the extractor rejects a POST /todos or PUT /todos/{id}
\* whose body or path does not decode starts no handler and leaves the store
\* as it was.
C4_RejectBeforeStore ==
    [][(/\ pc' = pc
        /\ last'.status = 400
        /\ last'.op \in {"create_todo", "put_todo_done"})
       => store' = store /\ handler' = handler]_vars

C4_Witness ==
    /\ last.status = 400
    /\ last.op \in {"create_todo", "put_todo_done"}
    /\ Rows = SeedIds

\* C5: every store failure other than a unique-constraint violation and a
\* no-matching-row result is answered 500 with the generic message, its
\* detail logged and absent from the body.
C5_NoLeak ==
    (/\ last.cause.variant \notin {"None", "RowNotFound"}
     /\ last.cause.code # "23505")
    => /\ last.status = 500
       /\ last.text = GenericMessage
       /\ last.logged = GenericMessage \o " " \o Debug(last.cause)

\* C6: every error response (not-found, conflict, internal failure) has a
\* JSON body, of the shape {error: string}.
C6_ErrorBodyJson ==
    (last.status \in {404, 409, 500}) => last.ctype = "application/json"

\* C7: a GET /todos/{id} the store executes answers 200 with the stored
\* {id, text, is_done} when the todo exists and 404 when it does not; GET
\* /todos/{id} and GET /todos leave the store as it was, whatever they answer.
C7_GetFrame ==
    [][/\ (Completes("get_todo") /\ Executed(last'))
          => IF last'.req.id \in Rows
             THEN /\ last'.status = 200
                  /\ last'.json = <<[id |-> last'.req.id,
                                     text |-> store[last'.req.id].todo_text,
                                     is_done |-> store[last'.req.id].is_done]>>
             ELSE last'.status = 404
       /\ (Completes("get_todo") \/ Completes("get_todos")) => store' = store]_vars

C7_Witness ==
    /\ last.op = "get_todo" /\ last.status = 404
    /\ last.req.id \notin Rows

\* C8: with the pool bounded, every request a task has taken up is answered;
\* the one whose wait for a connection times out is answered 500 and the
\* store is as it was.
C8_Completes ==
    /\ \A t \in Tasks : (pc[t] # "idle") ~> (pc[t] = "idle")
    /\ [][\A t \in Tasks : (pc[t] = "acquire" /\ pc'[t] = "idle")
             => last'.status = 500 /\ store' = store]_vars

C8_Witness ==
    /\ last.cause = PoolTimedOut /\ last.status = 500
    /\ \E t \in Tasks : pc[t] = "query"

\* C9: no step removes a todo or changes its text; is_done of a todo changes
\* only in the step that answers 200 to a PUT on its identifier, and that step
\* leaves the other todos and the number of todos as they were.
C9_OnlyDoneChanges ==
    [][\A id \in Rows :
          /\ id \in DOMAIN store'
          /\ store'[id].todo_text = store[id].todo_text
          /\ store'[id].is_done # store[id].is_done
             => /\ Completes("put_todo_done")
                /\ last'.status = 200 /\ last'.req.id = id
                /\ DOMAIN store' = Rows
                /\ \A o \in Rows \ {id} : store'[o] = store[o]]_vars

C9_Witness ==
    /\ last.op = "put_todo_done" /\ last.status = 200
    /\ store[last.req.id].is_done = TRUE
    /\ Cardinality(Rows) > Cardinality(SeedIds)

====
